---- MODULE Spec2Model ----
(***************************************************************************)
(* Model of gqlopencensus/options.go: the tracer configuration (two        *)
(* ordered lists of attribute producers and the only-methods flag), the    *)
(* options that build it, the attribute composers fieldAttributes and      *)
(* operationAttributes, and the operation-name resolver operationName.     *)
(*                                                                         *)
(* Go closures are defunctionalised: a producer or an option is a record   *)
(* naming the function literal and holding its captured variables; the     *)
(* operator of the same name is the literal's body.  Go slices built by    *)
(* make/append are modelled with their backing arrays on a heap, so that   *)
(* capacity, reallocation and sharing of a buffer are visible.             *)
(***************************************************************************)
EXTENDS Integers, Sequences, FiniteSets, TLC

VARIABLES
    opts,     \* the options handed to the constructor, in the caller's order
    applied,  \* how many of them have been applied to the configuration
    built,    \* TRUE once the constructor has returned the tracer
    cfg,      \* the tracer's config struct
    call,     \* the last trace-time call made on the built tracer, with its result
    reqs,     \* concurrent requests: each one's position in a composer call
    heap      \* backing arrays of the attribute slices of the calls in progress

vars == <<opts, applied, built, cfg, call, reqs, heap>>

----------------------------------------------------------------------------
(* Bounds of the model *)

\* longest option list handed to the constructor
MaxOpts == 3
\* longest option list in the concurrent specification
MaxConcOpts == 2
\* number of attributes returned by the caller-supplied bulk producers
BulkLen == 4

(* make([]trace.Attribute, 0, 10) *)
AttrCap == 10

----------------------------------------------------------------------------
(* trace.Attribute, and the contexts supplied by the GraphQL engine *)

StringAttribute(key, value) == [key |-> key, value |-> value]

\* trace.Attribute{}: what an unwritten cell of a backing array holds
ZeroAttribute == [key |-> "", value |-> ""]

\* a value that encoding/json cannot encode (a channel)
Chan == [t |-> "chan"]
JInt(i) == [t |-> "int", v |-> i]
JStr(s) == [t |-> "str", v |-> s]

\* map[string]interface{}: nil, or the keys present with their values
NilMap == [nil |-> TRUE, kv |-> <<>>]
Map(f) == [nil |-> FALSE, kv |-> f]

\* the keys used in maps, in the byte order json.Marshal sorts them by
MapKeys == <<"ch", "id", "q">>

SampleMaps ==
    { NilMap,
      Map(<<>>),
      Map([k \in {"id"} |-> JInt(7)]),
      Map([k \in {"q", "id"} |-> IF k = "id" THEN JInt(7) ELSE JStr("x")]),
      Map([k \in {"ch", "id"} |-> IF k = "id" THEN JInt(7) ELSE Chan]) }

SmallMaps ==
    { NilMap,
      Map([k \in {"q", "id"} |-> IF k = "id" THEN JInt(7) ELSE JStr("x")]),
      Map([k \in {"ch", "id"} |-> IF k = "id" THEN JInt(7) ELSE Chan]) }

\* *ast.OperationDefinition: nil, or a node with a name and an operation kind
NilOperation == [nil |-> TRUE, Name |-> "", Operation |-> ""]
OperationDefinition(name, kind) == [nil |-> FALSE, Name |-> name, Operation |-> kind]

OperationNodes ==
    {NilOperation} \cup
    { OperationDefinition(nm, k) :
        nm \in {"", "GetUser"}, k \in {"", "query", "mutation", "subscription"} }

\* graphql.OperationContext
OperationContexts ==
    [ Operation : OperationNodes,
      OperationName : {"", "Ping"},
      RawQuery : {"", "{me{id}}"},
      Variables : SmallMaps ]

\* the operation contexts traced in the lifecycle specifications
TracedOperationContexts ==
    [ Operation : { NilOperation,
                    OperationDefinition("GetUser", "query"),
                    OperationDefinition("", "mutation") },
      OperationName : {"Ping"},
      RawQuery : {"{me{id}}"},
      Variables : SmallMaps ]

\* graphql.FieldContext
TracedFieldContexts ==
    [ Field : [Name : {"user", "id"}], Args : SampleMaps ]

----------------------------------------------------------------------------
(* encoding/json.Marshal on a map[string]interface{} *)

Quote(s) == "\"" \o s \o "\""

marshalValue(v) ==
    IF v.t = "int" THEN ToString(v.v) ELSE Quote(v.v)

RECURSIVE marshalPairs(_, _, _)
marshalPairs(kv, i, first) ==
    IF i > Len(MapKeys) THEN ""
    ELSE IF MapKeys[i] \notin DOMAIN kv THEN marshalPairs(kv, i + 1, first)
    ELSE (IF first THEN "" ELSE ",")
         \o Quote(MapKeys[i]) \o ":" \o marshalValue(kv[MapKeys[i]])
         \o marshalPairs(kv, i + 1, FALSE)

\* []byte: nil, or the bytes
NilBytes == [nil |-> TRUE, s |-> ""]
Bytes(s) == [nil |-> FALSE, s |-> s]

\* the conversion string(b) of a []byte
goString(b) == IF b.nil THEN "" ELSE b.s

\* ([]byte, error): nil bytes and an error when a value cannot be encoded
jsonMarshal(m) ==
    IF m.nil THEN [bytes |-> Bytes("null"), err |-> FALSE]
    ELSE IF \E k \in DOMAIN m.kv : m.kv[k] = Chan
         THEN [bytes |-> NilBytes, err |-> TRUE]
         ELSE [bytes |-> Bytes("{" \o marshalPairs(m.kv, 1, TRUE) \o "}"), err |-> FALSE]

----------------------------------------------------------------------------
(* operationName *)

\* mutant of operationName: the raw name tried before the operation kind
operationNameRawFirst(ctx) ==
    LET n1 == IF ~ctx.Operation.nil THEN ctx.Operation.Name ELSE ""
        n2 == IF n1 = "" THEN ctx.OperationName ELSE n1
        n3 == IF n2 = "" /\ ~ctx.Operation.nil THEN ctx.Operation.Operation ELSE n2
    IN  n3

operationName(ctx) ==
    LET n1 == IF ~ctx.Operation.nil THEN ctx.Operation.Name ELSE ""
        n2 == IF n1 = "" /\ ~ctx.Operation.nil THEN ctx.Operation.Operation ELSE n1
        n3 == IF n2 = "" THEN ctx.OperationName ELSE n2
    IN  n3

----------------------------------------------------------------------------
(* Attribute producers: the function literals of options.go, and two       *)
(* producers written by the caller (any func of the FieldAttributer or     *)
(* OperationAttributer type may be registered).                            *)

\* the closure returned by FieldAttribute(key, value)
FieldAttribute(key, value) == [fn |-> "FieldAttribute", key |-> key, value |-> value]
fieldAttributeFn(p, fc) == << StringAttribute(p.key, p.value) >>

\* the closure returned by OperationAttribute(key, value)
OperationAttribute(key, value) == [fn |-> "OperationAttribute", key |-> key, value |-> value]
operationAttributeFn(p, oc) == << StringAttribute(p.key, p.value) >>

\* mutant of defaultFieldAttributer: the two attributes in the other order
defaultFieldAttributerSwapped(fc) ==
    << StringAttribute("field", fc.Field.Name),
       StringAttribute("server", "gqlgen") >>

\* the field producer of defaultTracer
defaultFieldAttributer(fc) ==
    << StringAttribute("server", "gqlgen"),
       StringAttribute("field", fc.Field.Name) >>

\* mutant of defaultOperationAttributer: the raw operation name, unresolved
defaultOperationAttributerRawName(oc) ==
    << StringAttribute("server", "gqlgen"),
       StringAttribute("operation", oc.OperationName) >>

\* the operation producer of defaultTracer
defaultOperationAttributer(oc) ==
    << StringAttribute("server", "gqlgen"),
       StringAttribute("operation", operationName(oc)) >>

\* the producer appended by WithDataDog
dataDogAttributer(oc) == << StringAttribute("resource.name", operationName(oc)) >>

\* the producer appended by WithRawQuery
rawQueryAttributer(oc) == << StringAttribute("query", oc.RawQuery) >>

\* mutant of variablesAttributer: no attribute at all when encoding fails
variablesAttributerFailing(oc) ==
    LET r == jsonMarshal(oc.Variables)
    IN  IF r.err THEN <<>> ELSE << StringAttribute("variables", goString(r.bytes)) >>

\* the producer appended by WithVariables: variables, _ := json.Marshal(oc.Variables)
variablesAttributer(oc) ==
    LET variables == jsonMarshal(oc.Variables).bytes
    IN  << StringAttribute("variables", goString(variables)) >>

\* the producer appended by WithArgs: args, _ := json.Marshal(fc.Args)
argsAttributer(fc) ==
    LET args == jsonMarshal(fc.Args).bytes
    IN  << StringAttribute("args", goString(args)) >>

\* caller-written producers returning several attributes at once
bulkFieldAttributer(fc) ==
    [i \in 1..BulkLen |-> StringAttribute("tag" \o ToString(i), fc.Field.Name)]
bulkOperationAttributer(oc) ==
    [i \in 1..BulkLen |-> StringAttribute("tag" \o ToString(i), oc.OperationName)]

DefaultProducer == [fn |-> "default"]
DataDogProducer == [fn |-> "WithDataDog"]
RawQueryProducer == [fn |-> "WithRawQuery"]
VariablesProducer == [fn |-> "WithVariables"]
ArgsProducer == [fn |-> "WithArgs"]
BulkProducer == [fn |-> "bulk"]

\* apply(ctx) for apply of type FieldAttributer
applyField(p, fc) ==
    CASE p.fn = "default" -> defaultFieldAttributer(fc)
      [] p.fn = "FieldAttribute" -> fieldAttributeFn(p, fc)
      [] p.fn = "WithArgs" -> argsAttributer(fc)
      [] p.fn = "bulk" -> bulkFieldAttributer(fc)

\* apply(ctx) for apply of type OperationAttributer
applyOperation(p, oc) ==
    CASE p.fn = "default" -> defaultOperationAttributer(oc)
      [] p.fn = "OperationAttribute" -> operationAttributeFn(p, oc)
      [] p.fn = "WithDataDog" -> dataDogAttributer(oc)
      [] p.fn = "WithRawQuery" -> rawQueryAttributer(oc)
      [] p.fn = "WithVariables" -> variablesAttributer(oc)
      [] p.fn = "bulk" -> bulkOperationAttributer(oc)

----------------------------------------------------------------------------
(* Go slices of trace.Attribute.  A slice is (ptr, len, cap); heap[ptr] is *)
(* its backing array, of cap cells.                                        *)

EmptyHeap == [p \in {} |-> <<>>]

FreshPtr(h) == CHOOSE p \in 1..(Cardinality(DOMAIN h) + 1) : p \notin DOMAIN h

\* mutant of goMake: one scratch array reused by every call
goMakeShared(h, capacity) ==
    [ h |-> [q \in DOMAIN h \cup {1} |->
                IF q \in DOMAIN h THEN h[q] ELSE [i \in 1..capacity |-> ZeroAttribute]],
      s |-> [ptr |-> 1, len |-> 0, cap |-> capacity] ]

\* make([]trace.Attribute, 0, capacity): a new backing array of its own
goMake(h, capacity) ==
    LET p == FreshPtr(h)
    IN  [ h |-> [q \in DOMAIN h \cup {p} |->
                    IF q = p THEN [i \in 1..capacity |-> ZeroAttribute] ELSE h[q]],
          s |-> [ptr |-> p, len |-> 0, cap |-> capacity] ]

\* the capacity append grows to (runtime growslice, below 256 elements)
growCap(old, needed) == IF needed > 2 * old THEN needed ELSE 2 * old

\* mutant of goAppend: never grows, dropping what does not fit the capacity
goAppendTruncating(h, s, xs) ==
    LET needed == IF s.len + Len(xs) <= s.cap THEN s.len + Len(xs) ELSE s.cap
    IN  [ h |-> [h EXCEPT ![s.ptr] =
                    [i \in 1..s.cap |->
                        IF i > s.len /\ i <= needed THEN xs[i - s.len] ELSE @[i]]],
          s |-> [s EXCEPT !.len = needed] ]

\* append(s, xs...): in place while the capacity suffices, else into a new,
\* larger array holding a copy of the elements
goAppend(h, s, xs) ==
    LET needed == s.len + Len(xs)
    IN  IF needed <= s.cap
        THEN [ h |-> [h EXCEPT ![s.ptr] =
                        [i \in 1..s.cap |->
                            IF i > s.len /\ i <= needed THEN xs[i - s.len] ELSE @[i]]],
               s |-> [s EXCEPT !.len = needed] ]
        ELSE LET p == FreshPtr(h)
                 c == growCap(s.cap, needed)
             IN  [ h |-> [q \in DOMAIN h \cup {p} |->
                            IF q = p
                            THEN [i \in 1..c |->
                                    IF i <= s.len THEN h[s.ptr][i]
                                    ELSE IF i <= needed THEN xs[i - s.len]
                                    ELSE ZeroAttribute]
                            ELSE h[q]],
                   s |-> [ptr |-> p, len |-> needed, cap |-> c] ]

\* the elements of slice s
elements(h, s) == [i \in 1..s.len |-> h[s.ptr][i]]

----------------------------------------------------------------------------
(* config.fieldAttributes and config.operationAttributes *)

\* one iteration of the range loop of fieldAttributes
fieldLoopBody(m, c, i, ctx) ==
    goAppend(m.h, m.s, applyField(c.fieldAttributers[i], ctx))

\* one iteration of the range loop of operationAttributes
operationLoopBody(m, c, i, ctx) ==
    goAppend(m.h, m.s, applyOperation(c.operationAttributers[i], ctx))

fieldAttributes(c, ctx) ==
    LET n == Len(c.fieldAttributers)
        run[i \in 0..n] ==
            IF i = 0 THEN goMake(EmptyHeap, AttrCap)
            ELSE fieldLoopBody(run[i - 1], c, i, ctx)
    IN  elements(run[n].h, run[n].s)

operationAttributes(c, ctx) ==
    LET n == Len(c.operationAttributers)
        run[i \in 0..n] ==
            IF i = 0 THEN goMake(EmptyHeap, AttrCap)
            ELSE operationLoopBody(run[i - 1], c, i, ctx)
    IN  elements(run[n].h, run[n].s)

----------------------------------------------------------------------------
(* The configuration and its options *)

\* mutant of defaultTracer: the only-methods flag off by default
defaultTracerAllFields ==
    [ fieldAttributers |-> << DefaultProducer >>,
      operationAttributers |-> << DefaultProducer >>,
      onlyMethods |-> FALSE ]

\* the config struct of defaultTracer()
defaultTracer ==
    [ fieldAttributers |-> << DefaultProducer >>,
      operationAttributers |-> << DefaultProducer >>,
      onlyMethods |-> TRUE ]

\* the option closures: the option's name and the variables it captures
WithFieldAttributes(attributers) == [opt |-> "WithFieldAttributes", attributers |-> attributers]
WithOperationAttributes(attributers) == [opt |-> "WithOperationAttributes", attributers |-> attributers]
WithDataDog == [opt |-> "WithDataDog"]
WithRawQuery == [opt |-> "WithRawQuery"]
WithVariables == [opt |-> "WithVariables"]
WithArgs == [opt |-> "WithArgs"]
OnlyMethods(enabled) == [opt |-> "OnlyMethods", enabled |-> enabled]

\* the bodies of the option closures, on the config c
\* mutant of withFieldAttributesFn: the new producers put in front
withFieldAttributesFnPrepending(o, c) ==
    [c EXCEPT !.fieldAttributers = o.attributers \o @]

withFieldAttributesFn(o, c) ==
    [c EXCEPT !.fieldAttributers = @ \o o.attributers]
withOperationAttributesFn(o, c) ==
    [c EXCEPT !.operationAttributers = @ \o o.attributers]
withDataDogFn(c) ==
    [c EXCEPT !.operationAttributers = Append(@, DataDogProducer)]
withRawQueryFn(c) ==
    [c EXCEPT !.operationAttributers = Append(@, RawQueryProducer)]
\* mutant of withVariablesFn: the producer appended to the field list too
withVariablesFnBothLists(c) ==
    [c EXCEPT !.operationAttributers = Append(@, VariablesProducer),
              !.fieldAttributers = Append(@, ArgsProducer)]

withVariablesFn(c) ==
    [c EXCEPT !.operationAttributers = Append(@, VariablesProducer)]
withArgsFn(c) ==
    [c EXCEPT !.fieldAttributers = Append(@, ArgsProducer)]
\* mutant of onlyMethodsFn: the flag, once false, stays false
onlyMethodsFnSticky(o, c) ==
    [c EXCEPT !.onlyMethods = @ /\ o.enabled]

onlyMethodsFn(o, c) ==
    [c EXCEPT !.onlyMethods = o.enabled]

\* apply(&t.config) for apply of type Option
applyOption(o, c) ==
    CASE o.opt = "WithFieldAttributes" -> withFieldAttributesFn(o, c)
      [] o.opt = "WithOperationAttributes" -> withOperationAttributesFn(o, c)
      [] o.opt = "WithDataDog" -> withDataDogFn(c)
      [] o.opt = "WithRawQuery" -> withRawQueryFn(c)
      [] o.opt = "WithVariables" -> withVariablesFn(c)
      [] o.opt = "WithArgs" -> withArgsFn(c)
      [] o.opt = "OnlyMethods" -> onlyMethodsFn(o, c)

----------------------------------------------------------------------------
(* Inputs: the options a caller hands to the constructor *)

FieldAttributerLists ==
    { <<>>,
      << FieldAttribute("server", "gqlgen") >>,
      << FieldAttribute("host", "mypod"), BulkProducer >> }

OperationAttributerLists ==
    { <<>>,
      << OperationAttribute("server", "gqlgen") >>,
      << OperationAttribute("host", "mypod"), BulkProducer >> }

Options ==
    { WithFieldAttributes(l) : l \in FieldAttributerLists }
    \cup { WithOperationAttributes(l) : l \in OperationAttributerLists }
    \cup { WithDataDog, WithRawQuery, WithVariables, WithArgs }
    \cup { OnlyMethods(b) : b \in BOOLEAN }

ConcOptions ==
    { WithFieldAttributes(<< FieldAttribute("host", "mypod"), BulkProducer >>),
      WithOperationAttributes(<< OperationAttribute("host", "mypod"), BulkProducer >>),
      WithArgs, WithVariables }

OptionLists(S, n) == UNION { [1..k -> S] : k \in 0..n }

Requests == {"r1", "r2"}

ConcFieldContexts ==
    { [Field |-> [Name |-> nm], Args |-> Map([k \in {"id"} |-> JInt(7)])] :
        nm \in {"user", "id"} }

ConcOperationContexts ==
    { [ Operation |-> OperationDefinition("GetUser", "query"), OperationName |-> "Ping",
        RawQuery |-> "{me{id}}", Variables |-> NilMap ] }

NoCall == [op |-> "none", ctx |-> <<>>, out |-> <<>>]

Idle == [pc |-> "idle", scope |-> "none", ctx |-> <<>>, i |-> 0,
         attrs |-> [ptr |-> 0, len |-> 0, cap |-> 0], out |-> <<>>]

----------------------------------------------------------------------------
(* Construction: the constructor starts from defaultTracer() and applies   *)
(* the options in the order given, then returns the tracer.                *)

Init ==
    /\ opts \in OptionLists(Options, MaxOpts)
    /\ applied = 0
    /\ built = FALSE
    /\ cfg = defaultTracer
    /\ call = NoCall
    /\ reqs = [r \in Requests |-> Idle]
    /\ heap = EmptyHeap

ApplyNext ==
    /\ ~built
    /\ applied < Len(opts)
    /\ cfg' = applyOption(opts[applied + 1], cfg)
    /\ applied' = applied + 1
    /\ UNCHANGED <<opts, built, call, reqs, heap>>

Build ==
    /\ ~built
    /\ applied = Len(opts)
    /\ built' = TRUE
    /\ UNCHANGED <<opts, applied, cfg, call, reqs, heap>>

----------------------------------------------------------------------------
(* Trace time, one call at a time *)

FieldAttributes(fc) ==
    /\ built
    /\ call = NoCall
    /\ call' = [op |-> "fieldAttributes", ctx |-> fc, out |-> fieldAttributes(cfg, fc)]
    /\ UNCHANGED <<opts, applied, built, cfg, reqs, heap>>

OperationAttributes(oc) ==
    /\ built
    /\ call = NoCall
    /\ call' = [op |-> "operationAttributes", ctx |-> oc, out |-> operationAttributes(cfg, oc)]
    /\ UNCHANGED <<opts, applied, built, cfg, reqs, heap>>

\* the span of the call ends; the tracer is ready for the next call
EndSpan ==
    /\ call # NoCall
    /\ call' = NoCall
    /\ UNCHANGED <<opts, applied, built, cfg, reqs, heap>>

Next ==
    \/ ApplyNext
    \/ Build
    \/ \E fc \in TracedFieldContexts : FieldAttributes(fc)
    \/ \E oc \in TracedOperationContexts : OperationAttributes(oc)
    \/ EndSpan

Spec == Init /\ [][Next]_vars

----------------------------------------------------------------------------
(* The operation-name resolver on its own *)

InitName ==
    /\ opts = <<>>
    /\ applied = 0
    /\ built = TRUE
    /\ cfg = defaultTracer
    /\ call = NoCall
    /\ reqs = [r \in Requests |-> Idle]
    /\ heap = EmptyHeap

OperationName(oc) ==
    /\ built
    /\ call = NoCall
    /\ call' = [op |-> "operationName", ctx |-> oc, out |-> operationName(oc)]
    /\ UNCHANGED <<opts, applied, built, cfg, reqs, heap>>

NextName ==
    \/ \E oc \in OperationContexts : OperationName(oc)
    \/ EndSpan

SpecName == InitName /\ [][NextName]_vars

----------------------------------------------------------------------------
(* Trace time, concurrent requests sharing the built configuration.  Each  *)
(* request runs a composer call step by step: the make, one step per       *)
(* iteration of the range loop, the return.                                *)

InitConc ==
    /\ opts \in OptionLists(ConcOptions, MaxConcOpts)
    /\ applied = 0
    /\ built = FALSE
    /\ cfg = defaultTracer
    /\ call = NoCall
    /\ reqs = [r \in Requests |-> Idle]
    /\ heap = EmptyHeap

\* the backing arrays still referenced by a call in progress
Live(h, rs) ==
    [p \in { q \in DOMAIN h : \E r \in Requests : rs[r].pc = "loop" /\ rs[r].attrs.ptr = q }
        |-> h[p]]

producersOf(c, scope) ==
    IF scope = "field" THEN c.fieldAttributers ELSE c.operationAttributers

\* attrs := make([]trace.Attribute, 0, 10)
Begin(r, scope, ctx) ==
    /\ built
    /\ reqs[r].pc = "idle"
    /\ LET m == goMake(heap, AttrCap)
       IN  /\ reqs' = [reqs EXCEPT ![r] =
                        [pc |-> "loop", scope |-> scope, ctx |-> ctx, i |-> 0,
                         attrs |-> m.s, out |-> <<>>]]
           /\ heap' = m.h
    /\ UNCHANGED <<opts, applied, built, cfg, call>>

\* attrs = append(attrs, apply(ctx)...) for the next producer of the list
Iterate(r) ==
    /\ reqs[r].pc = "loop"
    /\ reqs[r].i < Len(producersOf(cfg, reqs[r].scope))
    /\ LET cur == [h |-> heap, s |-> reqs[r].attrs]
           m == IF reqs[r].scope = "field"
                THEN fieldLoopBody(cur, cfg, reqs[r].i + 1, reqs[r].ctx)
                ELSE operationLoopBody(cur, cfg, reqs[r].i + 1, reqs[r].ctx)
           rs == [reqs EXCEPT ![r].i = @ + 1, ![r].attrs = m.s]
       IN  /\ reqs' = rs
           /\ heap' = Live(m.h, rs)
    /\ UNCHANGED <<opts, applied, built, cfg, call>>

\* return attrs
Return(r) ==
    /\ reqs[r].pc = "loop"
    /\ reqs[r].i = Len(producersOf(cfg, reqs[r].scope))
    /\ LET rs == [reqs EXCEPT ![r].pc = "done",
                              ![r].out = elements(heap, reqs[r].attrs),
                              ![r].attrs = Idle.attrs]
       IN  /\ reqs' = rs
           /\ heap' = Live(heap, rs)
    /\ UNCHANGED <<opts, applied, built, cfg, call>>

\* the request's span ends
Finish(r) ==
    /\ reqs[r].pc = "done"
    /\ reqs' = [reqs EXCEPT ![r] = Idle]
    /\ UNCHANGED <<opts, applied, built, cfg, call, heap>>

NextConc ==
    \/ ApplyNext
    \/ Build
    \/ \E r \in Requests, fc \in ConcFieldContexts : Begin(r, "field", fc)
    \/ \E r \in Requests, oc \in ConcOperationContexts : Begin(r, "operation", oc)
    \/ \E r \in Requests : Iterate(r)
    \/ \E r \in Requests : Return(r)
    \/ \E r \in Requests : Finish(r)

SpecConc == InitConc /\ [][NextConc]_vars

----------------------------------------------------------------------------
(* Vocabulary of the properties *)

\* s is a prefix of t
IsPrefix(s, t) ==
    /\ Len(s) <= Len(t)
    /\ \A i \in 1..Len(s) : s[i] = t[i]

\* the concatenation of a sequence of sequences, in order
RECURSIVE Flatten(_)
Flatten(ss) == IF ss = <<>> THEN <<>> ELSE Head(ss) \o Flatten(Tail(ss))

\* the output of each producer of a list on a context, in list order
FieldOutputs(ps, fc) == [i \in 1..Len(ps) |-> applyField(ps[i], fc)]
OperationOutputs(ps, oc) == [i \in 1..Len(ps) |-> applyOperation(ps[i], oc)]

\* the options applied so far
AppliedOpts == SubSeq(opts, 1, applied)

FieldCall == call.op = "fieldAttributes"
OperationCall == call.op = "operationAttributes"

----------------------------------------------------------------------------
(* C1: the composer returns exactly the concatenation of the outputs of   *)
(* the registered producers, in registration order, for each scope: no     *)
(* interleaving, no deduplication, no filtering, and no truncation beyond  *)
(* the pre-sized capacity of 10.                                           *)

C1_ComposerConcatenates ==
    /\ FieldCall =>
         call.out = Flatten(FieldOutputs(cfg.fieldAttributers, call.ctx))
    /\ OperationCall =>
         call.out = Flatten(OperationOutputs(cfg.operationAttributers, call.ctx))

\* a field call returning more than 10 attributes, two of them equal, from
\* at least three producers
C1_Witness ==
    /\ FieldCall
    /\ Len(cfg.fieldAttributers) >= 3
    /\ Len(call.out) > AttrCap
    /\ \E i, j \in 1..Len(call.out) : i < j /\ call.out[i] = call.out[j]

----------------------------------------------------------------------------
(* C3: with no option applied, the field attributes of any field context   *)
(* are exactly ("server", "gqlgen") then ("field", <the field's name>).    *)

C3_DefaultFieldAttributes ==
    (FieldCall /\ opts = <<>>) =>
        call.out = << [key |-> "server", value |-> "gqlgen"],
                      [key |-> "field", value |-> call.ctx.Field.Name] >>

C3_Witness ==
    /\ FieldCall
    /\ opts = <<>>
    /\ call.ctx.Field.Name = "id"
    /\ Len(call.out) = 2

----------------------------------------------------------------------------
(* C4: with no option applied, the operation attributes of any operation   *)
(* context are exactly ("server", "gqlgen") then ("operation", the name    *)
(* the resolver gives); no query or variables attribute is emitted.        *)

C4_DefaultOperationAttributes ==
    (OperationCall /\ opts = <<>>) =>
        /\ call.out = << [key |-> "server", value |-> "gqlgen"],
                         [key |-> "operation", value |-> operationName(call.ctx)] >>
        /\ \A i \in 1..Len(call.out) : call.out[i].key \notin {"query", "variables"}

\* a default operation call whose name comes from the parsed node, not from
\* the raw operation name
C4_Witness ==
    /\ OperationCall
    /\ opts = <<>>
    /\ call.ctx.Operation = OperationDefinition("GetUser", "query")
    /\ call.ctx.OperationName = "Ping"
    /\ call.out[2].value = "GetUser"

----------------------------------------------------------------------------
(* C5: the only-methods flag equals the argument of the last OnlyMethods   *)
(* option applied, whatever options lie between; it is true when none was  *)
(* applied.                                                                *)

\* the argument of the last OnlyMethods option of os, or the default
RECURSIVE LastOnlyMethods(_)
LastOnlyMethods(os) ==
    IF os = <<>> THEN TRUE
    ELSE IF os[Len(os)].opt = "OnlyMethods" THEN os[Len(os)].enabled
    ELSE LastOnlyMethods(SubSeq(os, 1, Len(os) - 1))

\* C5: after any options, the flag is the argument of the last OnlyMethods
\* applied, or true when none was
C5_LastOnlyMethodsWins ==
    /\ cfg.onlyMethods = LastOnlyMethods(AppliedOpts)
    /\ built => cfg.onlyMethods = LastOnlyMethods(opts)

\* built from OnlyMethods(false), another option, OnlyMethods(true)
C5_Witness ==
    /\ built
    /\ Len(opts) = 3
    /\ opts[1] = OnlyMethods(FALSE)
    /\ opts[2].opt # "OnlyMethods"
    /\ opts[3] = OnlyMethods(TRUE)
    /\ cfg.onlyMethods = TRUE

----------------------------------------------------------------------------
(* C6: the producers of WithVariables and WithArgs never fail: each gives  *)
(* exactly one attribute with its fixed key, whose value is the JSON       *)
(* encoding, or "" when the value cannot be encoded, and the composer      *)
(* still returns the whole concatenation with the other producers'         *)
(* attributes.                                                             *)

\* what json.Marshal writes for the sample maps: nothing for the map
\* holding a channel
ExpectedJSON(m) ==
    CASE m = NilMap -> "null"
      [] m = Map(<<>>) -> "{}"
      [] m = Map([k \in {"id"} |-> JInt(7)]) -> "{\"id\":7}"
      [] m = Map([k \in {"q", "id"} |-> IF k = "id" THEN JInt(7) ELSE JStr("x")])
            -> "{\"id\":7,\"q\":\"x\"}"
      [] m = Map([k \in {"ch", "id"} |-> IF k = "id" THEN JInt(7) ELSE Chan]) -> ""

\* where the output of producer k starts in the composed sequence, less one
Offset(outs, k) == Len(Flatten(SubSeq(outs, 1, k - 1)))

\* C6: in every composed result each producer's output is in its place, and
\* the WithArgs / WithVariables producers give one attribute: the JSON or ""
C6_SerializersNeverFail ==
    /\ FieldCall =>
         LET ps == cfg.fieldAttributers
             outs == FieldOutputs(ps, call.ctx)
         IN  /\ Len(call.out) = Len(Flatten(outs))
             /\ \A k \in 1..Len(ps) :
                    /\ ps[k] = ArgsProducer =>
                         outs[k] = << [key |-> "args",
                                       value |-> ExpectedJSON(call.ctx.Args)] >>
                    /\ \A j \in 1..Len(outs[k]) :
                           call.out[Offset(outs, k) + j] = outs[k][j]
    /\ OperationCall =>
         LET ps == cfg.operationAttributers
             outs == OperationOutputs(ps, call.ctx)
         IN  /\ Len(call.out) = Len(Flatten(outs))
             /\ \A k \in 1..Len(ps) :
                    /\ ps[k] = VariablesProducer =>
                         outs[k] = << [key |-> "variables",
                                       value |-> ExpectedJSON(call.ctx.Variables)] >>
                    /\ \A j \in 1..Len(outs[k]) :
                           call.out[Offset(outs, k) + j] = outs[k][j]

\* an operation call on variables that cannot be encoded, with a producer
\* registered after WithVariables
C6_Witness ==
    /\ OperationCall
    /\ \E k \in 1..Len(cfg.operationAttributers) :
          /\ cfg.operationAttributers[k] = VariablesProducer
          /\ k < Len(cfg.operationAttributers)
    /\ jsonMarshal(call.ctx.Variables).err
    /\ [key |-> "variables", value |-> ""] \in { call.out[i] : i \in 1..Len(call.out) }
    /\ call.out[Len(call.out)].key # "variables"

----------------------------------------------------------------------------
(* C7: a tracer constructed with zero options behaves as the default       *)
(* configuration: the same attribute sequences for every field and         *)
(* operation context, and the only-methods flag true.                      *)

C7_ZeroOptionsIsDefault ==
    (built /\ opts = <<>>) =>
        /\ cfg.onlyMethods = TRUE
        /\ Len(cfg.fieldAttributers) = 1
        /\ Len(cfg.operationAttributers) = 1
        /\ \A fc \in TracedFieldContexts :
              fieldAttributes(cfg, fc) = defaultFieldAttributer(fc)
        /\ \A oc \in TracedOperationContexts :
              operationAttributes(cfg, oc) = defaultOperationAttributer(oc)

C7_Witness ==
    /\ built
    /\ opts = <<>>
    /\ applied = 0
    /\ call.op = "operationAttributes"

----------------------------------------------------------------------------
(* C8: the producer lists are append-only under option application: each   *)
(* step keeps the previous list as a prefix, so the lists are the default  *)
(* producer followed by what each option contributes, in the caller's      *)
(* order and, within one option, in argument order; the composed output    *)
(* follows that order.                                                     *)

\* the producers an option contributes to each list
FieldContribution(o) ==
    CASE o.opt = "WithFieldAttributes" -> o.attributers
      [] o.opt = "WithArgs" -> << ArgsProducer >>
      [] OTHER -> <<>>

OperationContribution(o) ==
    CASE o.opt = "WithOperationAttributes" -> o.attributers
      [] o.opt = "WithDataDog" -> << DataDogProducer >>
      [] o.opt = "WithRawQuery" -> << RawQueryProducer >>
      [] o.opt = "WithVariables" -> << VariablesProducer >>
      [] OTHER -> <<>>

FieldContributions(os) == Flatten([i \in 1..Len(os) |-> FieldContribution(os[i])])
OperationContributions(os) == Flatten([i \in 1..Len(os) |-> OperationContribution(os[i])])

C8_ListsInOrder ==
    /\ cfg.fieldAttributers = << DefaultProducer >> \o FieldContributions(AppliedOpts)
    /\ cfg.operationAttributers = << DefaultProducer >> \o OperationContributions(AppliedOpts)
    /\ FieldCall =>
         call.out = Flatten(FieldOutputs(<< DefaultProducer >> \o FieldContributions(opts),
                                         call.ctx))
    /\ OperationCall =>
         call.out = Flatten(OperationOutputs(<< DefaultProducer >> \o OperationContributions(opts),
                                             call.ctx))

C8_StepKeepsPrefix ==
    /\ IsPrefix(cfg.fieldAttributers, cfg'.fieldAttributers)
    /\ IsPrefix(cfg.operationAttributers, cfg'.operationAttributers)

\* C8: the lists are the default producer then the contributions in order,
\* and every step keeps the previous lists as prefixes
C8_AppendOnly == []C8_ListsInOrder /\ [][C8_StepKeepsPrefix]_vars

\* a field call on a tracer built from a two-producer WithFieldAttributes
\* followed by WithArgs
C8_Witness ==
    /\ FieldCall
    /\ Len(opts) >= 2
    /\ opts[1] = WithFieldAttributes(<< FieldAttribute("host", "mypod"), BulkProducer >>)
    /\ opts[2] = WithArgs
    /\ cfg.fieldAttributers[2] = FieldAttribute("host", "mypod")
    /\ cfg.fieldAttributers[4] = ArgsProducer
    /\ call.out[3] = [key |-> "host", value |-> "mypod"]

----------------------------------------------------------------------------
(* C10: each option changes only its own component of the configuration:   *)
(* WithFieldAttributes and WithArgs the field list; WithOperationAttributes,*)
(* WithDataDog, WithRawQuery and WithVariables the operation list;         *)
(* OnlyMethods the flag.  Hence options of different kinds commute: the    *)
(* configuration depends only on the order of the options within each kind.*)

OptionKind(o) ==
    CASE o.opt \in {"WithFieldAttributes", "WithArgs"} -> "field"
      [] o.opt \in {"WithOperationAttributes", "WithDataDog", "WithRawQuery", "WithVariables"}
            -> "operation"
      [] o.opt = "OnlyMethods" -> "flag"

OfKind(os, kind) == SelectSeq(os, LAMBDA o : OptionKind(o) = kind)

\* the options of os regrouped by kind, each kind in its original order
KindOrders ==
    { <<"field", "operation", "flag">>, <<"flag", "operation", "field">>,
      <<"operation", "flag", "field">> }
Regrouped(os, order) ==
    OfKind(os, order[1]) \o OfKind(os, order[2]) \o OfKind(os, order[3])

\* the configuration after the options os, applied in order to c
RECURSIVE ApplyAll(_, _)
ApplyAll(os, c) ==
    IF os = <<>> THEN c ELSE ApplyAll(Tail(os), applyOption(Head(os), c))

C10_KindsCommute ==
    \A order \in KindOrders :
        cfg = ApplyAll(Regrouped(AppliedOpts, order), defaultTracer)

C10_StepFrame ==
    (applied' = applied + 1) =>
        LET kind == OptionKind(opts[applied'])
        IN  /\ kind # "field" => cfg'.fieldAttributers = cfg.fieldAttributers
            /\ kind # "operation" => cfg'.operationAttributers = cfg.operationAttributers
            /\ kind # "flag" => cfg'.onlyMethods = cfg.onlyMethods

\* C10: regrouping the options by kind gives the same configuration, and
\* every option leaves the components of the other kinds unchanged
C10_OptionsFrame == []C10_KindsCommute /\ [][C10_StepFrame]_vars

\* built from three options of the three kinds, given flag first
C10_Witness ==
    /\ built
    /\ Len(opts) = 3
    /\ OptionKind(opts[1]) = "flag"
    /\ OptionKind(opts[2]) = "operation"
    /\ OptionKind(opts[3]) = "field"
    /\ cfg.onlyMethods = FALSE
    /\ Len(cfg.fieldAttributers) > 1
    /\ Len(cfg.operationAttributers) > 1

----------------------------------------------------------------------------
(* C2: operationName is an ordered fallback chain in which the first       *)
(* non-empty candidate wins: the parsed node's name if there is a node and *)
(* the name is not empty; else the node's operation kind if there is a     *)
(* node and the kind is not empty; else the raw OperationName.             *)

NameCall == call.op = "operationName"

HasNode(oc) == ~oc.Operation.nil

\* C2 (amended): name, else non-empty kind, else raw name; and the four
\* examples of the specification
C2_FallbackChain ==
    NameCall =>
        LET oc == call.ctx
        IN  /\ call.out =
                 IF HasNode(oc) /\ oc.Operation.Name # "" THEN oc.Operation.Name
                 ELSE IF HasNode(oc) /\ oc.Operation.Operation # "" THEN oc.Operation.Operation
                 ELSE oc.OperationName
            /\ (HasNode(oc) /\ oc.Operation.Name = "GetUser") => call.out = "GetUser"
            /\ (HasNode(oc) /\ oc.Operation.Name = "" /\ oc.Operation.Operation = "mutation")
                  => call.out = "mutation"
            /\ (~HasNode(oc) /\ oc.OperationName = "Ping") => call.out = "Ping"
            /\ (~HasNode(oc) /\ oc.OperationName = "") => call.out = ""

\* a node with neither name nor kind: the raw name is returned
C2_Witness ==
    /\ NameCall
    /\ HasNode(call.ctx)
    /\ call.ctx.Operation.Name = ""
    /\ call.ctx.Operation.Operation = ""
    /\ call.ctx.OperationName = "Ping"
    /\ call.out = "Ping"

\* C2 as stated: whenever a parsed node exists and its name is empty, the
\* string form of its kind is returned; the raw name only without a node
C2_AsStated ==
    NameCall =>
        LET oc == call.ctx
        IN  call.out =
              IF HasNode(oc) /\ oc.Operation.Name # "" THEN oc.Operation.Name
              ELSE IF HasNode(oc) THEN oc.Operation.Operation
              ELSE oc.OperationName

----------------------------------------------------------------------------
(* C9: once built, the configuration is read-only and shared safely: the   *)
(* composers never change the producer lists or the flag, and under any    *)
(* interleaving of concurrent calls each call returns what it would return *)
(* run alone; calls in progress never share a result buffer.               *)

RunAlone(r) ==
    IF reqs[r].scope = "field"
    THEN fieldAttributes(cfg, reqs[r].ctx)
    ELSE operationAttributes(cfg, reqs[r].ctx)

C9_CallsIsolated ==
    /\ \A r \in Requests : reqs[r].pc = "done" => reqs[r].out = RunAlone(r)
    /\ \A r1, r2 \in Requests :
          (r1 # r2 /\ reqs[r1].pc = "loop" /\ reqs[r2].pc = "loop")
             => reqs[r1].attrs.ptr # reqs[r2].attrs.ptr

C9_ConfigReadOnly == built => cfg' = cfg

\* C9: every finished call returned what it returns run alone, calls in
\* progress hold distinct buffers, and a built configuration never changes
C9_SharedConfigSafe == []C9_CallsIsolated /\ [][C9_ConfigReadOnly]_vars

\* one call has returned more than 10 attributes while another call, on
\* another context, is part-way through its loop
C9_Witness ==
    /\ reqs["r1"].pc = "done"
    /\ Len(reqs["r1"].out) > AttrCap
    /\ reqs["r2"].pc = "loop"
    /\ reqs["r2"].i >= 1
    /\ reqs["r2"].i < Len(producersOf(cfg, reqs["r2"].scope))
    /\ reqs["r2"].ctx # reqs["r1"].ctx

====
